---- MODULE Spec2Model ----
(***************************************************************************)
(* Chain Tracker: the sync orchestrator of js/app.js (loadAndSyncChain,    *)
(* fetchAllFactionNews, extractConsumption, mergeConsumption,              *)
(* updateTotals, init, startAutoRefresh, onFetchChainFromApi) over the     *)
(* IndexedDB layer of js/db.js and the fetch layer of js/api.js.           *)
(*                                                                         *)
(* JavaScript values: null and undefined of a numeric field are the        *)
(* negative integers Null and Undefined (every real timestamp is >= 1);    *)
(* objects used as maps are functions whose DOMAIN is the set of keys.     *)
(***************************************************************************)
EXTENDS Integers, Sequences, FiniteSets, TLC

\* ------------------------------------------------------------------ bounds
MaxTime == 2
MaxItems == 2
PageSize == 1
\* the clock of js/api.js is followed over this many half windows
MaxTicks == 3
\* the requests of the feed walk that went before the calls that are followed
Earlier == 48
\* the requests the followed calls issue
MaxRequests == 4
\* the pieces of a news text given to the parser
MaxPieces == 4
\* the news items of a batch given to extractConsumption alone
MaxBatch == 3

\* ------------------------------------------------------- values of the code
Null == -1
Undefined == -2

\* the chain ids of the store; a sync reads and writes the record of its own id only
ChainIds == {1}
Members == {"A", "B"}
NoMember == ""
Procs == {"init", "manual", "tick"}

IsNullish(v) == v = Null \/ v = Undefined
\* a ?? b
Coalesce(a, b) == IF IsNullish(a) THEN b ELSE a
\* truthiness of a number-or-null value
Truthy(v) == ~IsNullish(v) /\ v # 0

EmptyMap == [k \in {} |-> 0]
MapGet(m, k, d) == IF k \in DOMAIN m THEN m[k] ELSE d
MapPut(m, k, v) == [x \in (DOMAIN m) \cup {k} |-> IF x = k THEN v ELSE m[x]]

NoRecord == [chainId |-> 0]
NoChain == [id |-> 0]
Pending == [state |-> "pending"]

\* What the parser reads off one news text: the member of
\* extractMemberIdAndName (NoMember for null), text.includes(XANAX_PHRASE),
\* and the parseInt of every POINTS_REGEX match, in order.
Messages ==
  << [member |-> "A", xanax |-> TRUE,  points |-> << >>],
     [member |-> "B", xanax |-> TRUE,  points |-> <<2, 0>>],
     [member |-> NoMember, xanax |-> TRUE, points |-> <<3>>] >>

\* the text of the news item of a given id
MessageOf(id) == Messages[((id - 1) % Len(Messages)) + 1]

\* The attackers arrays a chain report can carry: (id, attacks, respect).
Attackers ==
  { << [id |-> "A", hits |-> 1, respect |-> 2] >>,
    << [id |-> "A", hits |-> 2, respect |-> 2], [id |-> "B", hits |-> 1, respect |-> 0] >> }

RECURSIVE SumSeq(_)
SumSeq(s) == IF s = << >> THEN 0 ELSE Head(s) + SumSeq(Tail(s))

RECURSIVE SumOver(_, _)
\* sum of f[k] over k in S
SumOver(f, S) ==
  IF S = {} THEN 0
  ELSE LET k == CHOOSE x \in S : TRUE IN f[k] + SumOver(f, S \ {k})

\* ------------------------------------------------------------ the news text
\* A news text is a sequence of pieces, each standing for these characters:
\*   "L"  <a href="profiles.php?XID=7">Ann</a>
\*   "E"  <a href="profiles.php?XID=8"></a>
\*   "T"  <b>
\*   "W"  Bob
\*   "S"  one space
\*   "U"  " used " (with both spaces)
\*   "X"  one of the faction's Xanax items
\*   "P"  2 faction points
\*   "Z"  0 faction points
Pieces == {"L", "E", "T", "W", "S", "U", "X", "P", "Z"}

Texts == UNION {[1..n -> Pieces] : n \in 0..MaxPieces}

\* the least index of s whose element satisfies Test, 0 when there is none
First(s, Test(_)) ==
  IF \E k \in 1..Len(s) : Test(s[k])
  THEN CHOOSE k \in 1..Len(s) : Test(s[k]) /\ \A j \in 1..(k - 1) : ~Test(s[j])
  ELSE 0

\* the greatest such index, 0 when there is none
Final(s, Test(_)) ==
  IF \E k \in 1..Len(s) : Test(s[k])
  THEN CHOOSE k \in 1..Len(s) : Test(s[k]) /\ \A j \in (k + 1)..Len(s) : ~Test(s[j])
  ELSE 0

RECURSIVE Join(_)
\* the strings of s, one after the other
Join(s) == IF s = << >> THEN "" ELSE Head(s) \o Join(Tail(s))

RECURSIVE Flatten(_)
\* the elements of the sequences of s, one after the other
Flatten(s) == IF s = << >> THEN << >> ELSE Head(s) \o Flatten(Tail(s))

IsBlank(str) == str = " " \/ str = ""

\* str.trim() of the string whose parts are s (a part is one space, or holds none)
Trim(s) ==
  LET IsInk(str) == ~IsBlank(str)
  IN IF First(s, IsInk) = 0 THEN ""
     ELSE Join(SubSeq(s, First(s, IsInk), Final(s, IsInk)))

\* piece.replace(/<[^>]+>/g, ''), in parts
Stripped(piece) ==
  CASE piece = "L" -> "Ann"
    [] piece = "E" -> ""
    [] piece = "T" -> ""
    [] piece = "W" -> "Bob"
    [] piece = "S" -> " "
    [] piece = "U" -> " used "
    [] piece = "X" -> "one of the faction's Xanax items"
    [] piece = "P" -> "2 faction points"
    [] piece = "Z" -> "0 faction points"

\* piece.replace(/<[^>]+>/g, ' '), in parts
Spaced(piece) ==
  CASE piece = "L" -> <<" ", "Ann", " ">>
    [] piece = "E" -> <<" ", " ">>
    [] piece = "T" -> <<" ">>
    [] piece = "W" -> <<"Bob">>
    [] piece = "S" -> <<" ">>
    [] piece = "U" -> <<" ", "used", " ">>
    [] piece = "X" -> <<"one", " ", "of", " ", "the", " ", "faction's", " ", "Xanax",
                        " ", "items">>
    [] piece = "P" -> <<"2", " ", "faction", " ", "points">>
    [] piece = "Z" -> <<"0", " ", "faction", " ", "points">>

\* text.match(PROFILE_LINK_REGEX): the groups of the first profile link
NoMatch == [id |-> "", name |-> ""]

profileLink(text) ==
  LET IsLink(piece) == piece \in {"L", "E"}
      k == First(text, IsLink)
  IN IF k = 0 THEN NoMatch
     ELSE IF text[k] = "L" THEN [id |-> "7", name |-> "Ann"]
     ELSE [id |-> "8", name |-> ""]

\* text.indexOf(' used '), as the number of pieces before the first marker
usedIdx(text) ==
  LET IsUsed(piece) == piece = "U"
  IN First(text, IsUsed) - 1

\* words[0] of text.trim().replace(/<[^>]+>/g, ' ').split(/\s+/).filter(Boolean),
\* the empty string for undefined
firstWord(text) ==
  LET parts == Flatten([k \in 1..Len(text) |-> Spaced(text[k])])
      IsInk(str) == ~IsBlank(str)
      IsSpace(str) == IsBlank(str)
      from == First(parts, IsInk)
      rest == SubSeq(parts, from, Len(parts))
      to == First(rest, IsSpace)
  IN IF from = 0 THEN ""
     ELSE IF to = 0 THEN Join(rest)
     ELSE Join(SubSeq(rest, 1, to - 1))

\* extractMemberName with the marker found at index 0 too
extractMemberName_fromZero(text) ==
  IF usedIdx(text) >= 0
  THEN Trim([k \in 1..usedIdx(text) |-> Stripped(text[k])])
  ELSE IF firstWord(text) # "" THEN firstWord(text) ELSE "Unknown"

extractMemberName(text) ==
  IF usedIdx(text) > 0
  THEN Trim([k \in 1..usedIdx(text) |-> Stripped(text[k])])
  ELSE IF firstWord(text) # "" THEN firstWord(text) ELSE "Unknown"

\* extractMemberIdAndName: null is the pair of NoMember
NoActor == [id |-> NoMember, name |-> ""]

extractMemberIdAndName(text) ==
  LET match == profileLink(text)
      name == extractMemberName(text)
  IN IF match # NoMatch
     THEN [id |-> match.id, name |-> IF match.name # "" THEN match.name ELSE name]
     ELSE IF name # "" THEN [id |-> name, name |-> name] ELSE NoActor

\* text.includes(XANAX_PHRASE)
includesXanax(text) ==
  \E k \in 1..(Len(text) - 1) : text[k] = "U" /\ text[k + 1] = "X"

RECURSIVE pointsMatches(_)
\* parseInt(match[1], 10) of every match of POINTS_REGEX, in order
pointsMatches(text) ==
  IF Len(text) < 2 THEN << >>
  ELSE IF text[1] = "U" /\ text[2] \in {"P", "Z"}
       THEN <<IF text[2] = "P" THEN 2 ELSE 0>> \o pointsMatches(Tail(Tail(text)))
       ELSE pointsMatches(Tail(text))

\* what the loop of extractConsumption reads off a news item
itemOf(raw) ==
  [id |-> raw.id, timestamp |-> raw.timestamp,
   member |-> extractMemberIdAndName(raw.text).id,
   xanax |-> includesXanax(raw.text),
   points |-> pointsMatches(raw.text)]

\* ------------------------------------------------------ extractConsumption
\* ts < chainStart, where chainStart may be undefined (comparison is false)
Less(a, b) == ~IsNullish(b) /\ a < b

\* addXanax (the entry's count; display names are not part of this model)
addXanax(xanax, id) ==
  IF id = NoMember THEN xanax
  ELSE MapPut(xanax, id, MapGet(xanax, id, 0) + 1)

\* addPoints without the test of the amount
addPoints_anyAmount(points, id, amount) ==
  IF id = NoMember THEN points
  ELSE MapPut(points, id, MapGet(points, id, 0) + amount)

\* addPoints
addPoints(points, id, amount) ==
  IF id = NoMember \/ amount = 0 THEN points
  ELSE MapPut(points, id, MapGet(points, id, 0) + amount)

RECURSIVE addAllPoints(_, _, _)
\* the regex.exec loop over every "used N faction points" match
addAllPoints(points, id, amounts) ==
  IF amounts = << >> THEN points
  ELSE addAllPoints(addPoints(points, id, Head(amounts)), id, Tail(amounts))

\* skipItem without the processedIds.has test
skipItem_noDedup(item, chainStart, chainEnd, processedIds) ==
  \/ Less(item.timestamp, chainStart)
  \/ item.timestamp > chainEnd

\* the three `continue`s that precede processedIds.add
skipItem(item, chainStart, chainEnd, processedIds) ==
  \/ Less(item.timestamp, chainStart)
  \/ item.timestamp > chainEnd
  \/ item.id \in processedIds

RECURSIVE extractLoop_breaks(_, _, _, _)
\* the loop leaving at an item without a member (break for continue)
extractLoop_breaks(newsItems, chainStart, chainEnd, acc) ==
  IF newsItems = << >> THEN acc
  ELSE
    LET item == Head(newsItems)
        rest == Tail(newsItems)
    IN IF skipItem(item, chainStart, chainEnd, acc.processedIds)
       THEN extractLoop_breaks(rest, chainStart, chainEnd, acc)
       ELSE
         LET marked == [acc EXCEPT !.processedIds = @ \cup {item.id}]
         IN IF item.member = NoMember
            THEN marked
            ELSE extractLoop_breaks(rest, chainStart, chainEnd,
                   [marked EXCEPT
                      !.xanax = IF item.xanax THEN addXanax(@, item.member) ELSE @,
                      !.points = addAllPoints(@, item.member, item.points)])

RECURSIVE extractLoop(_, _, _, _)
extractLoop(newsItems, chainStart, chainEnd, acc) ==
  IF newsItems = << >> THEN acc
  ELSE
    LET item == Head(newsItems)
        rest == Tail(newsItems)
    IN IF skipItem(item, chainStart, chainEnd, acc.processedIds)
       THEN extractLoop(rest, chainStart, chainEnd, acc)
       ELSE
         LET marked == [acc EXCEPT !.processedIds = @ \cup {item.id}]
         IN IF item.member = NoMember
            THEN extractLoop(rest, chainStart, chainEnd, marked)
            ELSE extractLoop(rest, chainStart, chainEnd,
                   [marked EXCEPT
                      !.xanax = IF item.xanax THEN addXanax(@, item.member) ELSE @,
                      !.points = addAllPoints(@, item.member, item.points)])

\* returns { xanax, points } and the processedIds set it mutated in place
extractConsumption(newsItems, chainStart, chainEnd, processedIds) ==
  extractLoop(newsItems, chainStart, chainEnd,
              [xanax |-> EmptyMap, points |-> EmptyMap, processedIds |-> processedIds])

\* -------------------------------------------------------- mergeConsumption
NoConsumption == [xanax |-> 0, points |-> 0]

mergeXanax(consumption, xanax) ==
  [id \in (DOMAIN consumption) \cup (DOMAIN xanax) |->
     LET cur == MapGet(consumption, id, NoConsumption)
     IN IF id \in DOMAIN xanax THEN [cur EXCEPT !.xanax = @ + xanax[id]] ELSE cur]

mergePoints(consumption, points) ==
  [id \in (DOMAIN consumption) \cup (DOMAIN points) |->
     LET cur == MapGet(consumption, id, NoConsumption)
     IN IF id \in DOMAIN points THEN [cur EXCEPT !.points = @ + points[id]] ELSE cur]

\* mergeConsumption assigning the new amounts instead of adding them
mergeConsumption_replace(chain, xanax, points) ==
  [chain EXCEPT !.consumption =
     [id \in (DOMAIN xanax) \cup (DOMAIN points) |->
        [xanax |-> MapGet(xanax, id, 0), points |-> MapGet(points, id, 0)]]]

mergeConsumption(chain, xanax, points) ==
  [chain EXCEPT !.consumption = mergePoints(mergeXanax(@, xanax), points)]

\* mergeConsumption with the display names: an entry of consumption is
\* {xanax, points, name}, of xanax {count, name}, of points {amount, name}
Or(name, other) == IF name # "" THEN name ELSE other

mergeXanaxNamed(consumption, xanax) ==
  [id \in (DOMAIN consumption) \cup (DOMAIN xanax) |->
     IF id \in DOMAIN xanax
     THEN LET data == xanax[id]
              cur == MapGet(consumption, id, [xanax |-> 0, points |-> 0, name |-> data.name])
          IN [cur EXCEPT !.xanax = @ + data.count, !.name = Or(data.name, @)]
     ELSE consumption[id]]

mergePointsNamed(consumption, points) ==
  [id \in (DOMAIN consumption) \cup (DOMAIN points) |->
     IF id \in DOMAIN points
     THEN LET data == points[id]
              cur == MapGet(consumption, id, [xanax |-> 0, points |-> 0, name |-> data.name])
          IN [cur EXCEPT !.points = @ + data.amount, !.name = Or(data.name, @)]
     ELSE consumption[id]]

\* mergeConsumptionNamed taking the name of the new entry whatever it is
mergeConsumptionNamed_overwrites(consumption, xanax, points) ==
  [id \in (DOMAIN consumption) \cup (DOMAIN xanax) \cup (DOMAIN points) |->
     LET merged == mergePointsNamed(mergeXanaxNamed(consumption, xanax), points)[id]
     IN [merged EXCEPT !.name = IF id \in DOMAIN points THEN points[id].name
                                ELSE IF id \in DOMAIN xanax THEN xanax[id].name
                                ELSE @]]

mergeConsumptionNamed(consumption, xanax, points) ==
  mergePointsNamed(mergeXanaxNamed(consumption, xanax), points)

\* ------------------------------------------------------------ updateTotals
totalsOf(hits, consumption) ==
  [hits    |-> SumOver([k \in DOMAIN hits |-> hits[k].hits], DOMAIN hits),
   respect |-> SumOver([k \in DOMAIN hits |-> hits[k].respect], DOMAIN hits),
   xanax   |-> SumOver([k \in DOMAIN consumption |-> consumption[k].xanax], DOMAIN consumption),
   points  |-> SumOver([k \in DOMAIN consumption |-> consumption[k].points], DOMAIN consumption)]

\* updateTotals leaving the consumption sums as they were
updateTotals_hitsOnly(chain) ==
  [chain EXCEPT !.totals = [totalsOf(chain.hits, chain.consumption) EXCEPT
                              !.xanax = chain.totals.xanax,
                              !.points = chain.totals.points]]

updateTotals(chain) ==
  [chain EXCEPT !.totals = totalsOf(chain.hits, chain.consumption)]

\* --------------------------------------------------- the report's attackers
RECURSIVE hitsOf(_, _)
\* for (const a of attackers) hits[String(a.id)] = {hits, respect}
hitsOf(attackers, hits) ==
  IF attackers = << >> THEN hits
  ELSE LET a == Head(attackers)
       IN hitsOf(Tail(attackers),
                 MapPut(hits, a.id, [hits |-> a.hits, respect |-> a.respect]))

\* ------------------------------------------------------------------- state
VARIABLES
  now,                \* Math.floor(Date.now() / 1000)
  feed,               \* the faction news of the API; feed[i] is the item of id i
  db,                 \* object store `chains`: chainId -> record or NoRecord
  config,             \* object store `config`: apiKey, lastSyncTimestamp
  refreshIntervalId,  \* module variable of app.js
  refreshChain,       \* the `chain` the registered interval callback closes over
  timers,             \* history: the setInterval timers of the page not yet cleared
  isRefreshing,       \* module variable of app.js
  view,               \* the section the UI shows
  proc,               \* the async calls in flight: init, onFetchChainFromApi, the tick
  last,               \* history: per chain id, the sync whose save wrote db[id]
  event,              \* history: how the call that took the last step ended
  clock,              \* Date.now() as js/api.js reads it, in milliseconds
  timestamps,         \* const timestamps of js/api.js
  call,               \* the calls of fetchWithRateLimit in flight, by caller
  sentAt,             \* history: the time of every HTTP request issued
  outcome,            \* history: how the call that took the last step ended
  input,              \* the arguments of a call of one of the pure functions
  output              \* what that call returned, Pending before it has run

\* the state of js/app.js and js/db.js
appVars == <<now, feed, db, config, refreshIntervalId, refreshChain, timers,
             isRefreshing, view, proc, last, event>>

\* the state of js/api.js
apiVars == <<clock, timestamps, call, sentAt, outcome>>

\* a call of extractConsumption or mergeConsumption taken alone
pureVars == <<input, output>>

vars == <<appVars, apiVars, pureVars>>

NoEvent == [proc |-> "", kind |-> "none", removeKey |-> FALSE]
Ended(p, kind, removeKey) == [proc |-> p, kind |-> kind, removeKey |-> removeKey]

\* `last` of a record no sync wrote; of a sync: the item ids its pages
\* returned and its bounds. ever: every id a persisted processedNewsIds of
\* the chain has listed
NoSync == [synced |-> FALSE, seen |-> << >>, start |-> Null, end |-> Null, ever |-> {}]
NoResult == [xanax |-> EmptyMap, points |-> EmptyMap]

IdleProc ==
  [pc |-> "idle",
   cur |-> NoChain,          \* currentChain
   end |-> Null,             \* const end
   chain |-> NoRecord,       \* let chain
   report |-> Pending,       \* reportData
   before |-> Null,          \* let before
   walking |-> FALSE,        \* fetchAllFactionNews has not returned
   allNews |-> << >>,
   consumption |-> NoResult, \* what fetchAllFactionNews returned
   processedIds |-> {},
   len0 |-> 0,               \* history: the length of the feed when the walk began
   closure |-> NoRecord,     \* the chain the running tick closes over
   seen |-> << >>,           \* history: ids of the items the pages returned
   snapDb |-> NoRecord,      \* history: db[chainId] when getChain resolved
   snapLast |-> Null,        \* history: lastSyncTimestamp at that moment
   prev |-> NoSync]          \* history: last[chainId] at that moment

InSync(q) == q.pc \in {"fetch", "save"}

\* Syncs started from the page (init, a button of the chains list) are taken
\* one at a time: such a call of loadAndSyncChain starts only when no other
\* sync is in flight. The interval callback has the guards of the code only.
Serial == \A q \in Procs : ~InSync(proc[q])

\* proc after p takes its step to np
Step(p, np) == [proc EXCEPT ![p] = np]

Starts == {Undefined, 2}

\* ----------------------------------------------------------------- js/api.js
RATE_LIMIT == 50
WINDOW_MS == 60000
RETRY_DELAY_MS == 5000

\* Date.now() is observed on a grid of half windows
Granule == WINDOW_MS \div 2

\* who calls fetchWithRateLimit: fetchCurrentChain, and the fetchChainReport
\* and fetchFactionNews of a sync
Callers == {"status", "report", "news"}

\* a response: its HTTP status and data.error.code (0: the body has no error,
\* or did not parse): data, an invalid key, either throttling signal
Responses ==
  { [status |-> 200, code |-> 0], [status |-> 200, code |-> 2],
    [status |-> 200, code |-> 5], [status |-> 429, code |-> 0] }

tornError5(response) == response.code = 5
http429(response) == response.status = 429

\* the retry whatever `retried` says
mustRetry_always(response, retried) == tornError5(response) \/ http429(response)

\* no retry at all
mustRetry_never(response, retried) == FALSE

\* if ((tornError5 || http429) && !retried)
mustRetry(response, retried) ==
  (tornError5(response) \/ http429(response)) /\ ~retried

IdleCall ==
  [pc |-> "idle",
   retried |-> FALSE,
   due |-> 0,        \* when the pending setTimeout fires
   sent |-> 0,       \* history: the requests this call has issued
   got |-> << >>]    \* history: the responses this call has received

NoOutcome == [caller |-> "", kind |-> "none", code |-> 0, sent |-> 0, got |-> << >>]

\* `input` while no pure function is called alone
NoInput == [fn |-> "none"]

\* purgeOldTimestamps() shifting nothing
purgeOldTimestamps_none(ts, t) == ts

RECURSIVE purgeOldTimestamps(_, _)
\* purgeOldTimestamps() at time t
purgeOldTimestamps(ts, t) ==
  IF ts # << >> /\ Head(ts) < t - WINDOW_MS
  THEN purgeOldTimestamps(Tail(ts), t)
  ELSE ts

\* waitForRateLimit() after a purge left ts: under the limit it returns, else
\* it awaits waitUntilExpired(timestamps[0])
waitForRateLimit(st, ts) ==
  IF Len(ts) >= RATE_LIMIT
  THEN [st EXCEPT !.pc = "waiting", !.due = Head(ts) + WINDOW_MS]
  ELSE [st EXCEPT !.pc = "admitted"]

\* the module state of a freshly loaded page, init() just called
Loaded ==
  /\ refreshIntervalId' = Null
  /\ refreshChain' = NoRecord
  /\ timers' = 0
  /\ isRefreshing' = FALSE
  /\ view' = "loading"
  /\ proc' = [p \in Procs |-> IF p = "init" THEN [IdleProc EXCEPT !.pc = "getConfig"]
                              ELSE IdleProc]

\* the state when the page has loaded for the first time
Fresh ==
  /\ now = 1
  /\ feed = << >>
  /\ db = [c \in ChainIds |-> NoRecord]
  /\ config = [apiKey |-> Null, lastSyncTimestamp |-> Null]
  /\ refreshIntervalId = Null
  /\ refreshChain = NoRecord
  /\ timers = 0
  /\ isRefreshing = FALSE
  /\ view = "loading"
  /\ proc = [p \in Procs |-> IF p = "init" THEN [IdleProc EXCEPT !.pc = "getConfig"]
                             ELSE IdleProc]
  /\ last = [c \in ChainIds |-> NoSync]
  /\ event = NoEvent
  /\ clock = 0
  /\ timestamps = << >>
  /\ call = [c \in Callers |-> IdleCall]
  /\ sentAt = << >>
  /\ outcome = NoOutcome

Init ==
  /\ Fresh
  /\ input = NoInput
  /\ output = Pending

\* ------------------------------------------------------------- environment
Advance ==
  /\ now < MaxTime
  /\ now' = now + 1
  /\ event' = NoEvent
  /\ UNCHANGED <<feed, db, config, refreshIntervalId, refreshChain, timers, isRefreshing,
                 view, proc, last>>
  /\ UNCHANGED <<apiVars, pureVars>>

\* a member uses the armory: the API lists the item, newest first (sort=desc),
\* with the time of the use
PostItem ==
  /\ Len(feed) < MaxItems
  /\ LET id == Len(feed) + 1
         m == MessageOf(id)
     IN feed' = Append(feed, [id |-> id, timestamp |-> now, member |-> m.member,
                              xanax |-> m.xanax, points |-> m.points])
  /\ event' = NoEvent
  /\ UNCHANGED <<now, db, config, refreshIntervalId, refreshChain, timers, isRefreshing,
                 view, proc, last>>
  /\ UNCHANGED <<apiVars, pureVars>>

\* the page is reloaded: module state starts over, IndexedDB stays
Reload ==
  /\ Loaded
  /\ event' = NoEvent
  /\ UNCHANGED <<now, feed, db, config, last>>
  /\ UNCHANGED <<apiVars, pureVars>>

\* -------------------------------------------------------- loadAndSyncChain
\* const isActive = currentChain.current != null || currentChain.end == null
isActiveOf(currentChain) ==
  currentChain.current # Null \/ IsNullish(currentChain.end)

\* const end = isActive ? now : (currentChain.end ?? now)
endOf(currentChain) ==
  IF isActiveOf(currentChain) THEN now ELSE Coalesce(currentChain.end, now)

\* the record of `if (isNew)`
newChain(currentChain) ==
  [chainId |-> currentChain.id,
   start |-> currentChain.start,
   end |-> IF isActiveOf(currentChain) THEN Null ELSE endOf(currentChain),
   status |-> IF isActiveOf(currentChain) THEN "active" ELSE "finished",
   hits |-> EmptyMap,
   consumption |-> EmptyMap,
   totals |-> [hits |-> 0, respect |-> 0, xanax |-> 0, points |-> 0],
   processedNewsIds |-> {}]

\* the call up to the Promise.all: bounds from the payload, record from the
\* store (db.getChain) or seeded, processedIds from the record
loadAndSyncChain(old, currentChain) ==
  LET chain == IF db[currentChain.id] = NoRecord THEN newChain(currentChain)
               ELSE db[currentChain.id]
  IN [IdleProc EXCEPT
        !.pc = "fetch",
        !.cur = currentChain,
        !.end = endOf(currentChain),
        !.chain = chain,
        !.walking = TRUE,
        !.processedIds = chain.processedNewsIds,
        !.len0 = Len(feed),
        !.closure = old.closure,
        !.snapDb = db[currentChain.id],
        !.snapLast = config.lastSyncTimestamp,
        !.prev = last[currentChain.id]]

\* api.fetchFactionNews({ apiKey, before }): the page below the cursor,
\* newest first, and the cursor of the page before it (Null when none)
pageOf(before) ==
  LET top == IF before = Null THEN Len(feed) ELSE before - 1
      low == IF top - PageSize + 1 > 1 THEN top - PageSize + 1 ELSE 1
  IN [items |-> [i \in 1..(top - low + 1) |-> feed[top - i + 1]],
      prev |-> IF top >= 1 /\ low > 1 THEN low ELSE Null]

RECURSIVE keepUntilStart(_, _, _)
\* the for loop of fetchAllFactionNews over one page
keepUntilStart(items, chainStart, kept) ==
  IF items = << >> THEN [kept |-> kept, reachedChainStart |-> FALSE]
  ELSE IF Less(Head(items).timestamp, chainStart)
       THEN [kept |-> kept, reachedChainStart |-> TRUE]
       ELSE keepUntilStart(Tail(items), chainStart, Append(kept, Head(items)))

\* what fetchAllFactionNews reads off a body that did not parse
\* (response.json().catch(() => ({}))) or that lacks news and _metadata
NoPage == [items |-> << >>, prev |-> Null]

\* the walk going on until the cursor runs out
walkEnds_ignoresStart(prev, reachedChainStart) == prev = Null

\* if (!prev || reachedChainStart) break
walkEnds(prev, reachedChainStart) == prev = Null \/ reachedChainStart

\* what loadAndSyncChain reads off a report body that did not parse or that
\* lacks attackers and end
NoReport == [state |-> "malformed", attackers |-> << >>, end |-> Null]

\* the well-formed bodies the request of the chain report can be answered with
reportsOf(t) ==
  [state : {"ok"}, attackers : Attackers, end : {Null, t}]

\* the continuation not awaiting the news walk
Joined_reportOnly(s) == TRUE

\* Promise.all: with the report resolved, the continuation runs once the
\* news walk has returned too
Joined(s) == ~s.walking

\* syncChain writing the hits of the report over the previous hits
syncChain_keepsHits(s, report) ==
  LET withHits == [s.chain EXCEPT !.hits = hitsOf(report.attackers, @)]
      merged == mergeConsumption(withHits, s.consumption.xanax, s.consumption.points)
      end == IF Truthy(s.cur.current) THEN Null ELSE Coalesce(report.end, s.end)
  IN updateTotals([merged EXCEPT
                     !.processedNewsIds = s.processedIds,
                     !.end = end,
                     !.status = IF Truthy(end) THEN "finished" ELSE "active"])

\* syncChain not storing the processed ids
syncChain_keepsProcessedNewsIds(s, report) ==
  LET withHits == [s.chain EXCEPT !.hits = hitsOf(report.attackers, EmptyMap)]
      merged == mergeConsumption(withHits, s.consumption.xanax, s.consumption.points)
      end == IF Truthy(s.cur.current) THEN Null ELSE Coalesce(report.end, s.end)
  IN updateTotals([merged EXCEPT
                     !.end = end,
                     !.status = IF Truthy(end) THEN "finished" ELSE "active"])

\* syncChain taking the start of the payload
syncChain_setsStart(s, report) ==
  LET withHits == [s.chain EXCEPT !.hits = hitsOf(report.attackers, EmptyMap)]
      merged == mergeConsumption(withHits, s.consumption.xanax, s.consumption.points)
      end == IF Truthy(s.cur.current) THEN Null ELSE Coalesce(report.end, s.end)
  IN updateTotals([merged EXCEPT
                     !.start = s.cur.start,
                     !.processedNewsIds = s.processedIds,
                     !.end = end,
                     !.status = IF Truthy(end) THEN "finished" ELSE "active"])

\* syncChain taking the status from the test that seeds a record
syncChain_statusOfPayload(s, report) ==
  LET withHits == [s.chain EXCEPT !.hits = hitsOf(report.attackers, EmptyMap)]
      merged == mergeConsumption(withHits, s.consumption.xanax, s.consumption.points)
      end == IF Truthy(s.cur.current) THEN Null ELSE Coalesce(report.end, s.end)
  IN updateTotals([merged EXCEPT
                     !.processedNewsIds = s.processedIds,
                     !.end = end,
                     !.status = IF isActiveOf(s.cur) THEN "active" ELSE "finished"])

\* syncChain merging into the record as stored at the join, not as loaded
syncChain_onStored(s, report) ==
  LET stored == IF db[s.chain.chainId] # NoRecord THEN db[s.chain.chainId] ELSE s.chain
      withHits == [stored EXCEPT !.hits = hitsOf(report.attackers, EmptyMap)]
      merged == mergeConsumption(withHits, s.consumption.xanax, s.consumption.points)
      end == IF Truthy(s.cur.current) THEN Null ELSE Coalesce(report.end, s.end)
  IN updateTotals([merged EXCEPT
                     !.processedNewsIds = s.processedIds,
                     !.end = end,
                     !.status = IF Truthy(end) THEN "finished" ELSE "active"])

\* lines 321-338: the mutation of the record after the join
syncChain(s, report) ==
  LET withHits == [s.chain EXCEPT !.hits = hitsOf(report.attackers, EmptyMap)]
      merged == mergeConsumption(withHits, s.consumption.xanax, s.consumption.points)
      end == IF Truthy(s.cur.current) THEN Null ELSE Coalesce(report.end, s.end)
  IN updateTotals([merged EXCEPT
                     !.processedNewsIds = s.processedIds,
                     !.end = end,
                     !.status = IF Truthy(end) THEN "finished" ELSE "active"])

\* one turn of the while loop of fetchAllFactionNews: the request of a page
\* resolves with `page`; on the last turn extractConsumption runs over allNews
walkPage(p, page) ==
  /\ InSync(proc[p])
  /\ proc[p].walking
  /\ LET s == proc[p]
         loop == keepUntilStart(page.items, s.cur.start, s.allNews)
         seen == s.seen \o [i \in 1..Len(page.items) |-> page.items[i].id]
         out == extractConsumption(loop.kept, s.cur.start, s.end, s.processedIds)
     IN proc' = Step(p,
          IF walkEnds(page.prev, loop.reachedChainStart)
          THEN [s EXCEPT !.walking = FALSE, !.allNews = loop.kept, !.before = Null,
                         !.seen = seen, !.len0 = 0,
                         !.consumption = [xanax |-> out.xanax, points |-> out.points],
                         !.processedIds = out.processedIds]
          ELSE [s EXCEPT !.allNews = loop.kept, !.before = page.prev, !.seen = seen])
  /\ event' = NoEvent
  /\ UNCHANGED <<now, feed, db, config, refreshIntervalId, refreshChain, timers,
                 isRefreshing, view, last>>
  /\ UNCHANGED <<apiVars, pureVars>>

\* api.fetchFactionNews resolves with a page of the feed
fetchFactionNews(p) == walkPage(p, pageOf(proc[p].before))

\* api.fetchFactionNews resolves with a body that did not parse
fetchFactionNews_malformed(p) == walkPage(p, NoPage)

\* api.fetchChainReport has resolved with `report` and, the walk being over,
\* the Promise.all is joined (the report touches no state before the join, so
\* its resolution is placed there): the record is mutated and
\* db.setConfig('lastSyncTimestamp') lands
joinReport(p, report) ==
  /\ proc[p].pc = "fetch"
  /\ Joined(proc[p])
  /\ proc' = Step(p, [proc[p] EXCEPT !.pc = "save", !.report = report,
                                     !.chain = syncChain(proc[p], report)])
  /\ config' = [config EXCEPT !.lastSyncTimestamp = now]
  /\ event' = NoEvent
  /\ UNCHANGED <<now, feed, db, refreshIntervalId, refreshChain, timers, isRefreshing,
                 view, last>>
  /\ UNCHANGED <<apiVars, pureVars>>

\* api.fetchChainReport resolves with a well-formed report
fetchChainReport(p) == \E report \in reportsOf(now) : joinReport(p, report)

\* api.fetchChainReport resolves with a body that did not parse
fetchChainReport_malformed(p) == joinReport(p, NoReport)

\* ------------------------------------------------------------ the callers
\* startAutoRefresh registering an interval whether or not one is registered
startAutoRefresh_noGuard(chain) ==
  IF chain.status # "active"
  THEN <<refreshIntervalId, refreshChain, timers>>
  ELSE <<1, chain, timers + 1>>

\* startAutoRefresh(apiKey, chain): the interval id, the captured chain and
\* the timers of the page after the call
startAutoRefresh(chain) ==
  IF chain.status # "active" \/ refreshIntervalId # Null
  THEN <<refreshIntervalId, refreshChain, timers>>
  ELSE <<1, chain, timers + 1>>

\* stopAutoRefresh(): clearInterval of the registered id, if any
stopAutoRefresh ==
  /\ refreshIntervalId' = Null
  /\ refreshChain' = NoRecord
  /\ timers' = IF refreshIntervalId # Null THEN timers - 1 ELSE timers

\* history: a timestamp within the bounds of extractConsumption
InRange(ts, start, end) == ~Less(ts, start) /\ ts <= end

\* history: sync s follows a sync of the same chain directly, the feed returned
\* the same items to both, and every item within the bounds of s was within
\* the bounds of that sync
Repeats(s) ==
  /\ s.prev.synced
  /\ s.prev.seen = s.seen
  /\ \A k \in 1..Len(s.seen) :
       InRange(feed[s.seen[k]].timestamp, s.cur.start, s.end)
         => InRange(feed[s.seen[k]].timestamp, s.prev.start, s.prev.end)

\* db.saveChain(chain) lands and loadAndSyncChain returns to its caller:
\* init shows the dashboard and starts the refresh, onFetchChainFromApi shows
\* the dashboard, the tick shows it and releases isRefreshing
saveChain(p) ==
  /\ proc[p].pc = "save"
  /\ LET s == proc[p]
         id == s.chain.chainId
     IN /\ db' = [db EXCEPT ![id] = s.chain]
        /\ last' = [last EXCEPT ![id] = [synced |-> TRUE, seen |-> s.seen,
                                          start |-> s.cur.start, end |-> s.end,
                                          ever |-> @.ever \cup s.chain.processedNewsIds]]
        /\ refreshIntervalId' = IF p = "init" THEN startAutoRefresh(s.chain)[1]
                                ELSE refreshIntervalId
        /\ refreshChain' = IF p = "init" THEN startAutoRefresh(s.chain)[2]
                           ELSE refreshChain
        /\ timers' = IF p = "init" THEN startAutoRefresh(s.chain)[3] ELSE timers
  /\ proc' = Step(p, IdleProc)
  /\ event' = Ended(p, "synced", FALSE)
  /\ view' = "dashboard"
  /\ isRefreshing' = IF p = "tick" THEN FALSE ELSE isRefreshing
  /\ UNCHANGED <<now, feed, config>>
  /\ UNCHANGED <<apiVars, pureVars>>

\* the catch blocks: init and onFetchChainFromApi clear the key of a flagged
\* error (err.removeKey: Torn codes 2, 12, 13, 18), the tick's catch is empty
keyAfterError(p, removeKey) ==
  IF removeKey /\ p \in {"init", "manual"} THEN Null ELSE config.apiKey

\* reject with a callback that has a catch block but no finally
reject_keepsFlag(p) ==
  /\ InSync(proc[p])
  /\ proc[p].pc = "fetch" \/ proc[p].walking
  /\ \E removeKey \in BOOLEAN :
       /\ config' = [config EXCEPT !.apiKey = keyAfterError(p, removeKey)]
       /\ event' = Ended(p, "rejected", removeKey)
       /\ \E chainsOk \in BOOLEAN :
            view' = IF p = "tick" THEN view
                    ELSE IF p = "init" \/ removeKey THEN "form"
                    ELSE IF chainsOk THEN "list" ELSE "loading"
  /\ proc' = Step(p, IdleProc)
  /\ UNCHANGED <<now, feed, db, refreshIntervalId, refreshChain, timers, isRefreshing, last>>
  /\ UNCHANGED <<apiVars, pureVars>>

\* a fetch of the Promise.all rejects and loadAndSyncChain rejects to its
\* caller. init: error and key form. The tick: nothing, isRefreshing released.
\* onFetchChainFromApi: key form when flagged; else the chains list is
\* fetched outside the try block and shown, unless that fetch rejects too
reject(p) ==
  /\ InSync(proc[p])
  /\ proc[p].pc = "fetch" \/ proc[p].walking
  /\ \E removeKey \in BOOLEAN :
       /\ config' = [config EXCEPT !.apiKey = keyAfterError(p, removeKey)]
       /\ event' = Ended(p, "rejected", removeKey)
       /\ \E chainsOk \in BOOLEAN :
            view' = IF p = "tick" THEN view
                    ELSE IF p = "init" \/ removeKey THEN "form"
                    ELSE IF chainsOk THEN "list" ELSE "loading"
  /\ proc' = Step(p, IdleProc)
  /\ isRefreshing' = IF p = "tick" THEN FALSE ELSE isRefreshing
  /\ UNCHANGED <<now, feed, db, refreshIntervalId, refreshChain, timers, last>>
  /\ UNCHANGED <<apiVars, pureVars>>

\* what api.fetchCurrentChain can resolve with when a chain is reported
StatusPayloads ==
  [id : ChainIds, start : Starts, current : {0, 1}, end : {Null}]

\* what a button of the chains list carries: Number(...) || undefined
ListPayloads ==
  [id : ChainIds, start : Starts, current : {Null}, end : {Undefined, now}]

\* init() without a stored key: the key form
init ==
  /\ proc["init"].pc = "getConfig"
  /\ config.apiKey = Null
  /\ view' = "form"
  /\ proc' = Step("init", IdleProc)
  /\ event' = NoEvent
  /\ UNCHANGED <<now, feed, db, config, refreshIntervalId, refreshChain, timers,
                 isRefreshing, last>>
  /\ UNCHANGED <<apiVars, pureVars>>

\* init(): fetchCurrentChain resolves with a chain and loadAndSyncChain starts
init_sync ==
  /\ Serial
  /\ proc["init"].pc = "getConfig"
  /\ config.apiKey # Null
  /\ \E currentChain \in StatusPayloads :
       proc' = Step("init", loadAndSyncChain(proc["init"], currentChain))
  /\ view' = "loading"
  /\ event' = NoEvent
  /\ UNCHANGED <<now, feed, db, config, refreshIntervalId, refreshChain, timers,
                 isRefreshing, last>>
  /\ UNCHANGED <<apiVars, pureVars>>

\* init(): fetchCurrentChain resolves with no chain (null, or neither current
\* nor id): fetchFactionChains, then showNoActiveChain lists the chains
init_noChain ==
  /\ proc["init"].pc = "getConfig"
  /\ config.apiKey # Null
  /\ proc' = Step("init", IdleProc)
  /\ view' = "list"
  /\ event' = NoEvent
  /\ UNCHANGED <<now, feed, db, config, refreshIntervalId, refreshChain, timers,
                 isRefreshing, last>>
  /\ UNCHANGED <<apiVars, pureVars>>

\* init(): fetchCurrentChain or fetchFactionChains rejects; the catch block
init_error ==
  /\ proc["init"].pc = "getConfig"
  /\ config.apiKey # Null
  /\ \E removeKey \in BOOLEAN :
       /\ config' = [config EXCEPT !.apiKey = keyAfterError("init", removeKey)]
       /\ event' = Ended("init", "fetchError", removeKey)
  /\ proc' = Step("init", IdleProc)
  /\ view' = "form"
  /\ UNCHANGED <<now, feed, db, refreshIntervalId, refreshChain, timers, isRefreshing, last>>
  /\ UNCHANGED <<apiVars, pureVars>>

\* saveApiKey(key): the key is stored and init() runs again
saveApiKey ==
  /\ view = "form"
  /\ proc["init"].pc = "idle"
  /\ config' = [config EXCEPT !.apiKey = 1]
  /\ proc' = Step("init", [IdleProc EXCEPT !.pc = "getConfig"])
  /\ event' = NoEvent
  /\ UNCHANGED <<now, feed, db, refreshIntervalId, refreshChain, timers, isRefreshing,
                 view, last>>
  /\ UNCHANGED <<apiVars, pureVars>>

\* the callback running whatever isRefreshing says
tickRuns_unguarded == refreshIntervalId # Null

\* the registered callback fires and gets past its guards: the page is
\* visible and `if (isRefreshing) return` does not return
tickRuns == refreshIntervalId # Null /\ ~isRefreshing

\* the callback fires while a refresh is in flight: it returns at once
tick_skip ==
  /\ refreshIntervalId # Null
  /\ ~tickRuns
  /\ event' = NoEvent
  /\ UNCHANGED <<now, feed, db, config, refreshIntervalId, refreshChain, timers, isRefreshing,
                 view, proc, last>>
  /\ UNCHANGED <<apiVars, pureVars>>

\* the callback runs, fetchCurrentChain resolves with a chain and
\* loadAndSyncChain starts
tick_sync ==
  /\ tickRuns
  /\ isRefreshing' = TRUE
  /\ \E currentChain \in StatusPayloads :
       proc' = Step("tick", loadAndSyncChain([IdleProc EXCEPT !.closure = refreshChain],
                                             currentChain))
  /\ event' = NoEvent
  /\ UNCHANGED <<now, feed, db, config, refreshIntervalId, refreshChain, timers, view, last>>
  /\ UNCHANGED <<apiVars, pureVars>>

\* the final status update setting the status only
finalChain_statusOnly(chain) == [chain EXCEPT !.status = "finished"]

\* the final status update of the captured chain
finalChain(chain) ==
  [chain EXCEPT !.status = "finished", !.end = Coalesce(chain.end, now)]

\* the callback runs and fetchCurrentChain reports no chain: the captured
\* chain is persisted as finished and the interval is stopped
tick_finished ==
  /\ tickRuns
  /\ LET chain == finalChain(refreshChain)
     IN /\ db' = [db EXCEPT ![chain.chainId] = chain]
        /\ last' = [last EXCEPT ![chain.chainId] =
                             [NoSync EXCEPT !.ever = last[chain.chainId].ever]]
  /\ stopAutoRefresh
  /\ view' = "dashboard"
  /\ proc' = Step("tick", IdleProc)
  /\ event' = Ended("tick", "finished", FALSE)
  /\ UNCHANGED <<now, feed, config, isRefreshing>>
  /\ UNCHANGED <<apiVars, pureVars>>

\* the callback runs and fetchCurrentChain rejects: "Silent fail on refresh"
tick_error ==
  /\ tickRuns
  /\ \E removeKey \in BOOLEAN :
       /\ config' = [config EXCEPT !.apiKey = keyAfterError("tick", removeKey)]
       /\ event' = Ended("tick", "fetchError", removeKey)
  /\ UNCHANGED <<now, feed, db, refreshIntervalId, refreshChain, timers, isRefreshing,
                 view, proc, last>>
  /\ UNCHANGED <<apiVars, pureVars>>

\* onFetchChainFromApi(apiKey, chainFromApi)
onFetchChainFromApi ==
  /\ Serial
  /\ view = "list"
  /\ proc["manual"].pc = "idle"
  /\ \E chainData \in ListPayloads :
       proc' = Step("manual", loadAndSyncChain(proc["manual"], chainData))
  /\ view' = "loading"
  /\ event' = NoEvent
  /\ UNCHANGED <<now, feed, db, config, refreshIntervalId, refreshChain, timers,
                 isRefreshing, last>>
  /\ UNCHANGED <<apiVars, pureVars>>

\* onFetchChainFromApi pressed while the sync of a tick is still in flight
\* (viewChainHistory stops the interval, not the run of the callback)
onFetchChainFromApi_inFlight ==
  /\ InSync(proc["tick"])
  /\ view = "list"
  /\ proc["manual"].pc = "idle"
  /\ \E chainData \in ListPayloads :
       proc' = Step("manual", loadAndSyncChain(proc["manual"], chainData))
  /\ view' = "loading"
  /\ event' = NoEvent
  /\ UNCHANGED <<now, feed, db, config, refreshIntervalId, refreshChain, timers,
                 isRefreshing, last>>
  /\ UNCHANGED <<apiVars, pureVars>>

\* viewChainHistory(apiKey): the refresh is stopped, then the chains list is
\* fetched and shown
viewChainHistory ==
  /\ view = "dashboard"
  /\ stopAutoRefresh
  /\ view' = "list"
  /\ event' = NoEvent
  /\ UNCHANGED <<now, feed, db, config, isRefreshing, proc, last>>
  /\ UNCHANGED <<apiVars, pureVars>>

Next ==
  \/ Advance
  \/ PostItem
  \/ Reload
  \/ init
  \/ init_sync
  \/ init_noChain
  \/ init_error
  \/ saveApiKey
  \/ tick_skip
  \/ tick_sync
  \/ tick_finished
  \/ tick_error
  \/ onFetchChainFromApi
  \/ viewChainHistory
  \/ \E p \in Procs : fetchFactionNews(p)
  \/ \E p \in Procs : fetchChainReport(p)
  \/ \E p \in Procs : saveChain(p)
  \/ \E p \in Procs : reject(p)

Spec == Init /\ [][Next]_vars

\* The load path of the page (init, reload) when a response body can be
\* malformed.
FaultNext ==
  \/ Advance
  \/ PostItem
  \/ Reload
  \/ init
  \/ init_sync
  \/ init_noChain
  \/ init_error
  \/ saveApiKey
  \/ fetchFactionNews("init")
  \/ fetchFactionNews_malformed("init")
  \/ fetchChainReport("init")
  \/ fetchChainReport_malformed("init")
  \/ saveChain("init")
  \/ reject("init")

FaultSpec == Init /\ [][FaultNext]_vars

\* The syncs of a tick and of a button of the chains list overlapping: the
\* page loads and syncs, ticks sync, the history is opened and a chain picked
\* while a tick is in flight. The clock stands still meanwhile, and the feed
\* gets its items between the syncs.
OverlapNext ==
  \/ (Serial /\ PostItem)
  \/ init
  \/ saveApiKey
  \/ init_sync
  \/ tick_sync
  \/ viewChainHistory
  \/ onFetchChainFromApi_inFlight
  \/ \E p \in Procs : fetchFactionNews(p)
  \/ \E p \in Procs : fetchChainReport(p)
  \/ \E p \in Procs : saveChain(p)

OverlapSpec == Init /\ [][OverlapNext]_vars

\* Another run of init() (the key form was submitted twice, and each submit
\* runs saveApiKey and init) has synced a chain and reaches its call of
\* startAutoRefresh with the record it was returned. The event tells whether
\* an interval was registered when it called.
init_startAutoRefresh ==
  /\ \E c \in ChainIds :
       /\ db[c] # NoRecord
       /\ refreshIntervalId' = startAutoRefresh(db[c])[1]
       /\ refreshChain' = startAutoRefresh(db[c])[2]
       /\ timers' = startAutoRefresh(db[c])[3]
  /\ event' = Ended("init", IF refreshIntervalId # Null THEN "startAutoRefresh again"
                            ELSE "startAutoRefresh", FALSE)
  /\ UNCHANGED <<now, feed, db, config, isRefreshing, view, proc, last>>
  /\ UNCHANGED <<apiVars, pureVars>>

\* The calls that register and clear the interval: the load path of the
\* page, the final update of the callback, viewChainHistory, and
\* startAutoRefresh called at any time a record is stored.
RefreshNext ==
  \/ Advance
  \/ Reload
  \/ init
  \/ init_sync
  \/ init_noChain
  \/ init_error
  \/ saveApiKey
  \/ fetchFactionNews("init")
  \/ fetchChainReport("init")
  \/ saveChain("init")
  \/ reject("init")
  \/ tick_finished
  \/ viewChainHistory
  \/ init_startAutoRefresh

RefreshSpec == Init /\ [][RefreshNext]_vars

\* ------------------------------------------------- the calls of js/api.js
\* a continuation queued behind an await that is already settled: it runs
\* before any timer, response or new task
MicrotaskPending == \E c \in Callers : call[c].pc = "admitted"

\* the followed calls start once the earlier walk is through, and issue
\* MaxRequests requests at most
MayCall ==
  /\ Len(sentAt) >= Earlier
  /\ Len(sentAt) < Earlier + MaxRequests

\* a feed walk of Earlier pages, each call admitted and answered at once
earlierCalls ==
  /\ sentAt = << >>
  /\ timestamps' = [i \in 1..Earlier |-> clock]
  /\ sentAt' = [i \in 1..Earlier |-> clock]
  /\ outcome' = NoOutcome
  /\ UNCHANGED <<clock, call>>
  /\ UNCHANGED <<appVars, pureVars>>

\* time passes
elapse ==
  /\ ~MicrotaskPending
  /\ clock < MaxTicks * Granule
  /\ clock' = clock + Granule
  /\ outcome' = NoOutcome
  /\ UNCHANGED <<timestamps, call, sentAt>>
  /\ UNCHANGED <<appVars, pureVars>>

\* fetchWithRateLimit(url) called from a task of its own, up to the await of
\* waitForRateLimit
fetchWithRateLimit(c) ==
  /\ MayCall
  /\ ~MicrotaskPending
  /\ call[c].pc = "idle"
  /\ LET ts == purgeOldTimestamps(timestamps, clock)
     IN /\ timestamps' = ts
        /\ call' = [call EXCEPT ![c] = waitForRateLimit(IdleCall, ts)]
  /\ outcome' = NoOutcome
  /\ UNCHANGED <<clock, sentAt>>
  /\ UNCHANGED <<appVars, pureVars>>

\* Promise.all([api.fetchChainReport(..), fetchAllFactionNews(..)]): the two
\* calls of fetchWithRateLimit begin in the same turn, each up to its await
promiseAll ==
  /\ MayCall
  /\ ~MicrotaskPending
  /\ call["report"].pc = "idle"
  /\ call["news"].pc = "idle"
  /\ LET ts == purgeOldTimestamps(timestamps, clock)
     IN /\ timestamps' = ts
        /\ call' = [call EXCEPT !["report"] = waitForRateLimit(IdleCall, ts),
                                !["news"] = waitForRateLimit(IdleCall, ts)]
  /\ outcome' = NoOutcome
  /\ UNCHANGED <<clock, sentAt>>
  /\ UNCHANGED <<appVars, pureVars>>

\* timestamps.push(Date.now()); fetch(url)
push(c) ==
  /\ call[c].pc = "admitted"
  /\ timestamps' = Append(timestamps, clock)
  /\ sentAt' = Append(sentAt, clock)
  /\ call' = [call EXCEPT ![c] = [@ EXCEPT !.pc = "fetching", !.sent = @ + 1]]
  /\ outcome' = NoOutcome
  /\ UNCHANGED clock
  /\ UNCHANGED <<appVars, pureVars>>

\* the timer of waitUntilExpired fires: purge, and the while test again
expire(c) ==
  /\ ~MicrotaskPending
  /\ call[c].pc = "waiting"
  /\ call[c].due <= clock
  /\ LET ts == purgeOldTimestamps(timestamps, clock)
     IN /\ timestamps' = ts
        /\ call' = [call EXCEPT ![c] = waitForRateLimit(@, ts)]
  /\ outcome' = NoOutcome
  /\ UNCHANGED <<clock, sentAt>>
  /\ UNCHANGED <<appVars, pureVars>>

\* the response arrives: the retry is scheduled, or the call throws the
\* error of the body, or it returns the data
respond(c) ==
  /\ ~MicrotaskPending
  /\ call[c].pc = "fetching"
  /\ \E response \in Responses :
       LET got == Append(call[c].got, response)
       IN IF mustRetry(response, call[c].retried)
          THEN /\ call' = [call EXCEPT ![c] = [@ EXCEPT !.pc = "sleeping", !.got = got,
                                                         !.due = clock + RETRY_DELAY_MS]]
               /\ outcome' = NoOutcome
          ELSE /\ call' = [call EXCEPT ![c] = IdleCall]
               /\ outcome' = [caller |-> c,
                              kind |-> IF response.code # 0 THEN "rejected" ELSE "resolved",
                              code |-> response.code,
                              sent |-> call[c].sent,
                              got |-> got]
  /\ UNCHANGED <<clock, timestamps, sentAt>>
  /\ UNCHANGED <<appVars, pureVars>>

\* the timer of the retry fires: fetchWithRateLimit(url, true), up to the
\* await of waitForRateLimit
retry(c) ==
  /\ MayCall
  /\ ~MicrotaskPending
  /\ call[c].pc = "sleeping"
  /\ call[c].due <= clock
  /\ LET ts == purgeOldTimestamps(timestamps, clock)
     IN /\ timestamps' = ts
        /\ call' = [call EXCEPT ![c] = waitForRateLimit([@ EXCEPT !.retried = TRUE], ts)]
  /\ outcome' = NoOutcome
  /\ UNCHANGED <<clock, sentAt>>
  /\ UNCHANGED <<appVars, pureVars>>

ApiNext ==
  \/ earlierCalls
  \/ elapse
  \/ promiseAll
  \/ \E c \in Callers : fetchWithRateLimit(c)
  \/ \E c \in Callers : push(c)
  \/ \E c \in Callers : expire(c)
  \/ \E c \in Callers : respond(c)
  \/ \E c \in Callers : retry(c)

ApiSpec == Init /\ [][ApiNext]_vars

\* The same with the scheduling of the runtime: time passes, a timer that is
\* due fires, a continuation that is queued runs.
ApiLiveSpec ==
  /\ ApiSpec
  /\ WF_vars(elapse)
  /\ \A c \in Callers : WF_vars(expire(c)) /\ WF_vars(push(c))

\* ------------------------------------------------ the pure functions alone
\* texts of a batch: an item use and a points use of Bob, an item use of the
\* member of a profile link, an item use with nothing before the marker, and
\* a points use of 0 by the member of a link
Samples ==
  { <<"W", "U", "X">>, <<"W", "U", "P">>, <<"L", "U", "X">>, <<"S", "U", "X">>,
    <<"L", "U", "Z">> }

\* one item of any text, or up to MaxBatch items of the sample texts; the
\* items have distinct ids and a timestamp within the bounds
Batches ==
  {<<[id |-> 1, timestamp |-> 1, text |-> t]>> : t \in Texts}
    \cup UNION {[1..n -> {[id |-> 0, timestamp |-> 1, text |-> t] : t \in Samples}]
                  : n \in 2..MaxBatch}

\* the batch with item k given the id k
Numbered(batch) == [k \in 1..Len(batch) |-> [batch[k] EXCEPT !.id = k]]

ExtractInputs ==
  [fn : {"extract"},
   newsItems : {Numbered(b) : b \in Batches},
   chainStart : {1},
   chainEnd : {1},
   consumption : {EmptyMap, [a \in {"Bob"} |-> [xanax |-> 1, points |-> 2]]}]

\* the maps with an entry for none, either or both of Ann and Bob
MapsOf(entries) ==
  UNION {[ids -> entries] : ids \in SUBSET {"Ann", "Bob"}}

MergeInputs ==
  [fn : {"merge"},
   consumption : MapsOf({[xanax |-> 1, points |-> 2, name |-> "old"],
                         [xanax |-> 0, points |-> 0, name |-> ""]}),
   xanax : MapsOf({[count |-> 1, name |-> "new"], [count |-> 2, name |-> ""]}),
   points : MapsOf({[amount |-> 2, name |-> "new"], [amount |-> 3, name |-> ""]})]

PureInit ==
  /\ Fresh
  /\ input \in ExtractInputs \cup MergeInputs
  /\ output = Pending

\* extractConsumption over the batch with an empty processedIds, then
\* mergeConsumption of what it returned
extractAndMerge(in) ==
  LET found == extractConsumption([k \in 1..Len(in.newsItems) |-> itemOf(in.newsItems[k])],
                                  in.chainStart, in.chainEnd, {})
      chain == mergeConsumption([consumption |-> in.consumption], found.xanax, found.points)
  IN [xanax |-> found.xanax, points |-> found.points,
      processedIds |-> found.processedIds, consumption |-> chain.consumption]

\* the call of extractConsumption and mergeConsumption returns
callExtract ==
  /\ input.fn = "extract"
  /\ output = Pending
  /\ output' = extractAndMerge(input)
  /\ UNCHANGED <<input, appVars, apiVars>>

\* the same call on the batch with two neighbours exchanged
reorder ==
  /\ input.fn = "extract"
  /\ output # Pending
  /\ \E k \in 1..(Len(input.newsItems) - 1) :
       LET items == input.newsItems
       IN input' = [input EXCEPT !.newsItems =
                      [items EXCEPT ![k] = items[k + 1], ![k + 1] = items[k]]]
  /\ output' = extractAndMerge(input')
  /\ UNCHANGED <<appVars, apiVars>>

\* the call of mergeConsumption returns
callMerge ==
  /\ input.fn = "merge"
  /\ output = Pending
  /\ output' = [consumption |->
                  mergeConsumptionNamed(input.consumption, input.xanax, input.points)]
  /\ UNCHANGED <<input, appVars, apiVars>>

PureNext ==
  \/ callExtract
  \/ reorder
  \/ callMerge

PureSpec == PureInit /\ [][PureNext]_vars

\* ================================================================== claims
\* the step is the save of sync p landing
SavedBy(p) ==
  proc[p].pc = "save" /\ event'.kind = "synced" /\ event'.proc = p

\* the step is sync p rejecting to its caller
RejectedBy(p) ==
  InSync(proc[p]) /\ event'.kind = "rejected" /\ event'.proc = p

\* what the feed items of the given ids give member a, each counted once
XanaxFrom(ids, a) ==
  Cardinality({i \in ids : feed[i].member = a /\ feed[i].xanax})

PointsFrom(ids, a) ==
  SumOver([i \in ids |-> IF feed[i].member = a THEN SumSeq(feed[i].points) ELSE 0], ids)

ConsumptionOf(chain, a) == MapGet(chain.consumption, a, NoConsumption)

\* C1: in every persisted record the consumption of each member is exactly
\* what the feed items listed in processedNewsIds give that member, each item
\* once: no item is counted twice, and none is counted without being listed.
C1_AtMostOnce ==
  \A c \in ChainIds :
    db[c] # NoRecord =>
      /\ db[c].processedNewsIds \subseteq 1..Len(feed)
      /\ DOMAIN db[c].consumption \subseteq Members
      /\ \A a \in Members :
           ConsumptionOf(db[c], a) =
             [xanax |-> XanaxFrom(db[c].processedNewsIds, a),
              points |-> PointsFrom(db[c].processedNewsIds, a)]

\* a sync whose pages returned an item its record had already counted has
\* run its merge
C1_Witness ==
  \E p \in Procs :
    /\ proc[p].pc = "save"
    /\ proc[p].snapDb # NoRecord
    /\ \E k \in 1..Len(proc[p].seen) :
         /\ proc[p].seen[k] \in proc[p].snapDb.processedNewsIds
         /\ feed[proc[p].seen[k]].member # NoMember

\* C2 as stated: when a sync follows a sync of the same chain directly and the
\* feed returned the same items to both, it persists the consumption it found.
C2_SameItemsSameConsumption ==
  [][\A p \in Procs :
       (SavedBy(p) /\ proc[p].prev.synced /\ proc[p].prev.seen = proc[p].seen)
         => db'[proc[p].chain.chainId].consumption = proc[p].snapDb.consumption]_vars

\* C2 amended: the same, when moreover every returned item that lies within
\* the bounds of the second sync lay within the bounds of the first.
C2_Idempotent ==
  [][\A p \in Procs :
       (SavedBy(p) /\ Repeats(proc[p]))
         => db'[proc[p].chain.chainId].consumption = proc[p].snapDb.consumption]_vars

\* a repeating sync that met a counted item within its bounds has run its merge
C2_Witness ==
  \E p \in Procs :
    /\ proc[p].pc = "save"
    /\ Repeats(proc[p])
    /\ \E k \in 1..Len(proc[p].seen) :
         /\ InRange(feed[proc[p].seen[k]].timestamp, proc[p].cur.start, proc[p].end)
         /\ feed[proc[p].seen[k]].member # NoMember

ReportHits(attackers) ==
  [id \in {attackers[k].id : k \in 1..Len(attackers)} |->
     LET k == CHOOSE j \in 1..Len(attackers) :
                /\ attackers[j].id = id
                /\ \A i \in (j + 1)..Len(attackers) : attackers[i].id # id
     IN [hits |-> attackers[k].hits, respect |-> attackers[k].respect]]

\* C4: the record a sync persists has exactly the hits entries of the report
\* that sync fetched.
C4_HitsReplaced ==
  [][\A p \in Procs :
       SavedBy(p) =>
         db'[proc[p].chain.chainId].hits = ReportHits(proc[p].report.attackers)]_vars

\* a sync whose report lacks a member the record had, and gives another
\* member a different hit count, has run its merge
C4_Witness ==
  \E p \in Procs :
    /\ proc[p].pc = "save"
    /\ proc[p].snapDb # NoRecord
    /\ "B" \in DOMAIN proc[p].snapDb.hits
    /\ "B" \notin DOMAIN proc[p].chain.hits
    /\ proc[p].chain.hits["A"].hits # proc[p].snapDb.hits["A"].hits

\* C5: a record persisted as finished is never persisted as active afterwards.
C5_FinishedStays ==
  [][\A c \in ChainIds :
       (db[c] # NoRecord /\ db[c].status = "finished")
         => db'[c].status = "finished"]_vars

\* C6: in every persisted record totals is the sum of its hits entries and of
\* its consumption entries.
C6_TotalsAreFold ==
  \A c \in ChainIds :
    db[c] # NoRecord =>
      LET r == db[c]
      IN /\ r.totals.hits = SumOver([k \in DOMAIN r.hits |-> r.hits[k].hits], DOMAIN r.hits)
         /\ r.totals.respect =
              SumOver([k \in DOMAIN r.hits |-> r.hits[k].respect], DOMAIN r.hits)
         /\ r.totals.xanax =
              SumOver([k \in DOMAIN r.consumption |-> r.consumption[k].xanax],
                      DOMAIN r.consumption)
         /\ r.totals.points =
              SumOver([k \in DOMAIN r.consumption |-> r.consumption[k].points],
                      DOMAIN r.consumption)

\* a persisted record with hits of two members and consumption of two members
C6_Witness ==
  \E c \in ChainIds :
    /\ db[c] # NoRecord
    /\ Cardinality(DOMAIN db[c].hits) = 2
    /\ Cardinality(DOMAIN db[c].consumption) = 2
    /\ db[c].totals.points > 0

\* C7: the start of a persisted record never changes.
C7_StartFixed ==
  [][\A c \in ChainIds :
       db[c] # NoRecord => (db'[c] # NoRecord /\ db'[c].start = db[c].start)]_vars

\* a sync whose payload carried another start than the record has persisted it
C7_Witness ==
  \E c \in ChainIds :
    /\ db[c] # NoRecord
    /\ last[c].synced
    /\ last[c].start # db[c].start

\* C8: once a persisted record has an end, it keeps that end.
C8_EndSetOnce ==
  [][\A c \in ChainIds :
       (db[c] # NoRecord /\ db[c].end # Null) => db'[c].end = db[c].end]_vars

\* C9: when a sync rejects, the stored record and lastSyncTimestamp are what
\* they were when the sync loaded its record.
C9_NothingPersisted ==
  [][\A p \in Procs :
       RejectedBy(p) =>
         /\ db'[proc[p].cur.id] = proc[p].snapDb
         /\ config'.lastSyncTimestamp = proc[p].snapLast]_vars

\* a sync of a stored record has rejected, after an earlier sync persisted
C9_Witness ==
  /\ event.kind = "rejected"
  /\ \E c \in ChainIds : db[c] # NoRecord /\ Cardinality(db[c].processedNewsIds) > 0
  /\ config.lastSyncTimestamp # Null

\* C10: after a fetch failed with an error flagged removeKey, the stored
\* apiKey is cleared.
C10_KeyCleared ==
  event.removeKey => config.apiKey = Null

\* the step is a run of the interval callback that got past its guards
TickRan ==
  \/ ~isRefreshing /\ isRefreshing'
  \/ event'.proc = "tick" /\ event'.kind \in {"finished", "fetchError"}

WalkStep(p) ==
  /\ InSync(proc[p])
  /\ proc[p].walking
  /\ InSync(proc'[p])
  /\ proc'[p] # proc[p]

\* the ids of a sequence of items
IdsOf(items) == [k \in 1..Len(items) |-> items[k].id]

C15_Complete ==
  [][\A p \in Procs :
       (WalkStep(p) /\ ~proc'[p].walking) =>
         LET s == proc[p]
             t == proc'[p]
             must == {i \in 1..s.len0 :
                        /\ InRange(feed[i].timestamp, s.cur.start, s.end)
                        /\ i \notin s.processedIds}
             counted == t.processedIds \ s.processedIds
         IN /\ must \subseteq counted
            /\ \A a \in Members :
                 /\ MapGet(t.consumption.xanax, a, 0) = XanaxFrom(counted, a)
                 /\ MapGet(t.consumption.points, a, 0) = PointsFrom(counted, a)]_vars

\* C16: the items a sync adds to the consumption of a record have their
\* timestamp between the start of that record and the end bound of the sync.
C16_WithinRecordBounds ==
  [][\A p \in Procs :
       SavedBy(p) =>
         LET r == db'[proc[p].chain.chainId]
             old == IF proc[p].snapDb = NoRecord THEN {}
                    ELSE proc[p].snapDb.processedNewsIds
         IN \A i \in r.processedNewsIds \ old :
              feed[i].member # NoMember
                => InRange(feed[i].timestamp, r.start, proc[p].end)]_vars

\* C18: the final status update persists the tracked record as finished with
\* an end, and leaves no interval registered, so that no tick runs after it.
C18_FinalUpdate ==
  [][event'.kind = "finished" =>
       /\ db'[refreshChain.chainId].status = "finished"
       /\ db'[refreshChain.chainId].end # Null
       /\ refreshIntervalId' = Null
       /\ ~tickRuns']_vars

\* a tick has found no current chain after syncs of the tracked chain
C18_Witness ==
  /\ event.kind = "finished"
  /\ refreshIntervalId = Null
  /\ \E c \in ChainIds :
       /\ db[c] # NoRecord
       /\ db[c].status = "finished"
       /\ db[c].end = now
       /\ db[c].processedNewsIds # {}

\* C19: a sync persists its record as active with no end when the payload
\* says the chain is in progress (the test that seeds a record), and else as
\* finished with the end of the report, or the current time when the report
\* has none.
C19_EndAndStatus ==
  [][\A p \in Procs :
       SavedBy(p) =>
         LET r == db'[proc[p].chain.chainId]
         IN IF isActiveOf(proc[p].cur)
            THEN r.end = Null /\ r.status = "active"
            ELSE /\ r.status = "finished"
                 /\ r.end = Coalesce(proc[p].report.end, now)]_vars

\* C20: a sync whose report body was malformed mutates nothing of its record
\* and persists nothing.
C20_MalformedAborts ==
  [][\A p \in Procs :
       /\ (proc[p].pc = "fetch" /\ proc'[p].pc = "save"
             /\ proc'[p].report.state = "malformed")
            => (proc'[p].chain = proc[p].chain /\ config' = config)
       /\ (SavedBy(p) /\ proc[p].report.state = "malformed") => db' = db]_vars

\* the requests issued within the window that ends with request k
InWindow(k) ==
  {j \in 1..Len(sentAt) : sentAt[j] <= sentAt[k] /\ sentAt[j] > sentAt[k] - WINDOW_MS}

\* C11: no window of WINDOW_MS holds more than RATE_LIMIT requests.
C11_AtMostRateLimit ==
  \A k \in 1..Len(sentAt) : Cardinality(InWindow(k)) <= RATE_LIMIT

\* a call issued two requests at most, the second after a throttled response
AtMostOneRetry(sent, got) ==
  /\ sent <= 2
  /\ sent = 2 => (got # << >> /\ (tornError5(got[1]) \/ http429(got[1])))

\* C12: a call of fetchWithRateLimit issues two requests at most, and a
\* second one only after a first response that was a throttling signal.
C12_AtMostOneRetry ==
  /\ \A c \in Callers : AtMostOneRetry(call[c].sent, call[c].got)
  /\ AtMostOneRetry(outcome.sent, outcome.got)

\* a call has ended whose retry was answered by a throttling signal again
C12_Witness ==
  /\ outcome.kind # "none"
  /\ outcome.sent = 2
  /\ Len(outcome.got) = 2
  /\ http429(outcome.got[2])

\* C13 as stated: no call rejects with Torn error code 5.
C13_NeverThrottlingError ==
  outcome.kind = "rejected" => outcome.code # 5

\* C13 amended: a call rejects with Torn error code 5 only when its retry was
\* answered by that error, after a first response that was a throttling
\* signal.
C13_OnlyAfterRetry ==
  (outcome.kind = "rejected" /\ outcome.code = 5) =>
    /\ outcome.sent = 2
    /\ Len(outcome.got) = 2
    /\ tornError5(outcome.got[1]) \/ http429(outcome.got[1])
    /\ tornError5(outcome.got[2])

\* a call whose first response was Torn error code 5 has returned data
C13_Witness ==
  /\ outcome.kind = "resolved"
  /\ Len(outcome.got) = 2
  /\ tornError5(outcome.got[1])

\* C21: the walk of a sync adds to the dedup set every item within its bounds
\* that it kept, whether or not the item names a member; the record the sync
\* persists lists that set; and a walk extracts nothing from an item that a
\* persisted record of the chain has listed.
C21_MarkedForGood ==
  [][\A p \in Procs :
       /\ (WalkStep(p) /\ ~proc'[p].walking) =>
            LET s == proc[p]
                t == proc'[p]
            IN /\ \A k \in 1..Len(t.allNews) :
                    InRange(t.allNews[k].timestamp, s.cur.start, s.end)
                      => t.allNews[k].id \in t.processedIds
               /\ (t.processedIds \ s.processedIds) \cap last[s.cur.id].ever = {}
       /\ SavedBy(p) =>
            db'[proc[p].chain.chainId].processedNewsIds = proc[p].processedIds]_vars

\* C22: when a sync of the interval callback persists the tracked chain as
\* finished, no interval is left registered, so that no tick runs after it.
C22_ClearedWhenFinished ==
  [][(SavedBy("tick") /\ db'[proc["tick"].chain.chainId].status = "finished")
       => (refreshIntervalId' = Null /\ ~tickRuns')]_vars

\* a response that is a throttling signal
Throttled(response) == tornError5(response) \/ http429(response)

\* C23: a call whose request and whose retry were both answered by a
\* throttling signal rejects.
C23_DoubleThrottleFails ==
  (/\ outcome.kind # "none"
   /\ Len(outcome.got) = 2
   /\ Throttled(outcome.got[1])
   /\ Throttled(outcome.got[2]))
    => outcome.kind = "rejected"

\* C28: the final status update leaves hits, consumption, totals and
\* processedNewsIds of the persisted record as they were.
C28_FinalUpdateFrame ==
  [][event'.kind = "finished" =>
       LET c == refreshChain.chainId
       IN /\ db'[c].hits = db[c].hits
          /\ db'[c].consumption = db[c].consumption
          /\ db'[c].totals = db[c].totals
          /\ db'[c].processedNewsIds = db[c].processedNewsIds]_vars

C30_AtMostOneInterval ==
  /\ [](timers <= 1 /\ (timers = 1 <=> refreshIntervalId # Null))
  /\ [][timers' > timers =>
          /\ timers = 0
          /\ refreshIntervalId = Null
          /\ refreshChain'.status = "active"]_vars

\* startAutoRefresh was called with an active chain while an interval was
\* registered
C30_Witness ==
  /\ event.kind = "startAutoRefresh again"
  /\ timers = 1
  /\ \E c \in ChainIds : db[c] # NoRecord /\ db[c].status = "active"

\* a call of extractConsumption on one news item has returned
OneItemDone ==
  input.fn = "extract" /\ Len(input.newsItems) = 1 /\ output # Pending

\* the text preceding the first " used ", markup stripped and trimmed
BeforeMarker(text) == Trim([k \in 1..usedIdx(text) |-> Stripped(text[k])])

\* the first step that yields a name: profile link, text before the marker,
\* first word, "Unknown"
FirstSuccess(text) ==
  IF profileLink(text) # NoMatch THEN profileLink(text).id
  ELSE IF usedIdx(text) > 0 /\ BeforeMarker(text) # "" THEN BeforeMarker(text)
  ELSE IF firstWord(text) # "" THEN firstWord(text)
  ELSE "Unknown"

\* the events of the text: the xanax phrase, or a points match above 0
HasEvent(text) ==
  includesXanax(text) \/ \E k \in 1..Len(pointsMatches(text)) : pointsMatches(text)[k] > 0

\* C26 as stated: the actor of a message is the first success of the chain,
\* and there always is one.
C26_AlwaysAttributed ==
  OneItemDone =>
    LET text == input.newsItems[1].text
        member == extractMemberIdAndName(text)
    IN /\ member # NoActor
       /\ member.id = FirstSuccess(text)
       /\ HasEvent(text) => member.id \in (DOMAIN output.xanax) \cup (DOMAIN output.points)

\* C26 amended: the actor is the id of the profile link; else, when " used "
\* is found past the first character, the stripped text before it, and none
\* when that text is empty; else the first word, else "Unknown". A message
\* with an event is attributed unless its text falls in the empty case.
C26_ActorChain ==
  OneItemDone =>
    LET text == input.newsItems[1].text
        member == extractMemberIdAndName(text)
        noName == profileLink(text) = NoMatch /\ usedIdx(text) > 0 /\ BeforeMarker(text) = ""
    IN /\ member = NoActor <=> noName
       /\ ~noName => member.id = FirstSuccess(text)
       /\ HasEvent(text) =>
            IF noName
            THEN output.xanax = EmptyMap /\ output.points = EmptyMap
            ELSE member.id \in (DOMAIN output.xanax) \cup (DOMAIN output.points)

\* a message with the xanax phrase, a tag alone before the marker and no
\* profile link has been through extractConsumption
C26_Witness ==
  /\ OneItemDone
  /\ input.newsItems[1].text = <<"T", "U", "X">>
  /\ output.processedIds = {1}
  /\ output.xanax = EmptyMap

C24_OrderIndependent ==
  [][(input.fn = "extract" /\ output # Pending /\ input' # input) =>
       /\ output'.xanax = output.xanax
       /\ output'.points = output.points
       /\ output'.consumption = output.consumption]_vars

\* a batch out of the order of its ids has been through extractConsumption:
\* one member has two item uses, one item names no member
C24_Witness ==
  /\ input.fn = "extract"
  /\ output # Pending
  /\ Len(input.newsItems) = 3
  /\ input.newsItems[1].id > input.newsItems[2].id
  /\ \E a \in DOMAIN output.xanax : output.xanax[a] = 2
  /\ \E k \in 1..3 : itemOf(input.newsItems[k]).member = NoMember

\* a call of mergeConsumption has returned
MergeDone == input.fn = "merge" /\ output # Pending

\* the name the new entries of an actor supply: that of the points entry when
\* it has one, else that of the xanax entry, else none
NewName(id) ==
  IF id \in DOMAIN input.points /\ input.points[id].name # "" THEN input.points[id].name
  ELSE IF id \in DOMAIN input.xanax THEN input.xanax[id].name
  ELSE ""

\* C25: mergeConsumption adds the count and the amount of an actor's new
\* entries to the actor's entry (0 and 0 when there was none), keeps the entry
\* of an actor without new entries, and changes the name of an entry only to a
\* non-empty name of a new entry; the amounts are those of the merge of the
\* sync.
C25_MergeAdds ==
  MergeDone =>
    LET new == (DOMAIN input.xanax) \cup (DOMAIN input.points)
        amounts(m) == [id \in DOMAIN m |-> [xanax |-> m[id].xanax, points |-> m[id].points]]
    IN /\ DOMAIN output.consumption = (DOMAIN input.consumption) \cup new
       /\ \A id \in (DOMAIN input.consumption) \ new :
            output.consumption[id] = input.consumption[id]
       /\ \A id \in new :
            LET old == MapGet(input.consumption, id, [xanax |-> 0, points |-> 0, name |-> ""])
                got == output.consumption[id]
            IN /\ got.xanax = old.xanax + MapGet(input.xanax, id, [count |-> 0]).count
               /\ got.points = old.points + MapGet(input.points, id, [amount |-> 0]).amount
               /\ got.name = IF NewName(id) # "" THEN NewName(id) ELSE old.name
       /\ amounts(output.consumption) =
            mergeConsumption([consumption |-> amounts(input.consumption)],
                             [id \in DOMAIN input.xanax |-> input.xanax[id].count],
                             [id \in DOMAIN input.points |-> input.points[id].amount]).consumption

\* a merge has kept the name of an entry whose new entries had no name and
\* replaced the name of another
C25_Witness ==
  /\ MergeDone
  /\ "Ann" \in DOMAIN input.consumption
  /\ "Ann" \in DOMAIN input.xanax
  /\ NewName("Ann") = ""
  /\ output.consumption["Ann"].name = "old"
  /\ "Bob" \in DOMAIN input.consumption
  /\ input.consumption["Bob"].name = "old"
  /\ output.consumption["Bob"].name = "new"

\* the save of sync p lands after an overlap: another sync is in flight, or
\* the stored record is no longer the one p loaded
OverlappedSave(p) ==
  /\ SavedBy(p)
  /\ \/ \E q \in Procs \ {p} : InSync(proc[q])
     \/ db[proc[p].chain.chainId] # proc[p].snapDb

\* C31: the record a sync persists after an overlap with another sync of the
\* chain gives each member exactly what the feed items listed in its
\* processedNewsIds give, each item once, and lists exactly the ids the
\* record it loaded listed and the ids its own walk marked.
C31_OverlapAtMostOnce ==
  [][\A p \in Procs :
       OverlappedSave(p) =>
         LET r == db'[proc[p].chain.chainId]
             loaded == IF proc[p].snapDb = NoRecord THEN {}
                       ELSE proc[p].snapDb.processedNewsIds
         IN /\ r.processedNewsIds = proc[p].processedIds
            /\ loaded \subseteq r.processedNewsIds
            /\ \A i \in r.processedNewsIds \ loaded :
                 \E k \in 1..Len(proc[p].allNews) :
                   /\ proc[p].allNews[k].id = i
                   /\ InRange(feed[i].timestamp, proc[p].cur.start, proc[p].end)
            /\ \A a \in Members :
                 ConsumptionOf(r, a) =
                   [xanax |-> XanaxFrom(r.processedNewsIds, a),
                    points |-> PointsFrom(r.processedNewsIds, a)]]_vars

\* the sync of a picked chain is about to save: since it loaded the record a
\* tick has persisted an item that this sync counted too
C31_Witness ==
  /\ proc["manual"].pc = "save"
  /\ proc["manual"].snapDb # NoRecord
  /\ LET c == proc["manual"].chain.chainId
         mine == proc["manual"].processedIds \ proc["manual"].snapDb.processedNewsIds
         theirs == db[c].processedNewsIds \ proc["manual"].snapDb.processedNewsIds
     IN /\ mine \cap theirs # {}
        /\ \E i \in mine \cap theirs : feed[i].member # NoMember

\* C32: isRefreshing is set only while a run of the interval callback is in
\* flight; the step that ends a run (its sync saved or rejected, the final
\* update made, the status fetch failed) leaves it false, and every run of
\* the callback that follows while the interval is registered gets past the
\* guard.
C32_GuardReleased ==
  /\ [](isRefreshing => InSync(proc["tick"]))
  /\ [][(event'.proc = "tick" /\ event'.kind # "none") =>
          /\ ~isRefreshing'
          /\ refreshIntervalId' # Null => tickRuns']_vars

\* the sync of a tick has rejected after it began its walk, the interval
\* still registered
C32_Witness ==
  /\ event.proc = "tick"
  /\ event.kind = "rejected"
  /\ refreshIntervalId # Null
  /\ ~isRefreshing
  /\ \E c \in ChainIds : db[c] # NoRecord /\ db[c].processedNewsIds # {}

\* the last time the clock is followed to
Horizon == MaxTicks * Granule

\* call c is held up in or just past waitForRateLimit: it waits on a timestamp
\* that leaves the window before the horizon, or its continuation is queued
Suspended(c) ==
  \/ call[c].pc = "waiting" /\ call[c].due < Horizon
  \/ call[c].pc = "admitted"

\* C33: a call that finds the window full is suspended, not failed, and issues
\* its request as time advances: a waiting call goes on only by waiting again
\* or by being admitted, an admitted call only by issuing its request, and no
\* call stays suspended for ever, also when several wait on one timestamp.
C33_WaitTerminates ==
  /\ [][\A c \in Callers :
          (Suspended(c) /\ call'[c] # call[c]) =>
             IF call[c].pc = "waiting"
             THEN call'[c].pc = "admitted" \/ Suspended(c)'
             ELSE call'[c].pc = "fetching"]_vars
  /\ \A c \in Callers : <>[]~Suspended(c)

\* two calls wait on the same oldest timestamp and their timers are due: the
\* timestamp is exactly WINDOW_MS old, which the purge does not shift yet
C33_Witness ==
  /\ call["report"].pc = "waiting"
  /\ call["news"].pc = "waiting"
  /\ call["report"].due = call["news"].due
  /\ call["report"].due = clock
  /\ call["report"].due < Horizon
  /\ Len(timestamps) >= RATE_LIMIT

====
